---- MODULE Spec2Model ----
(***************************************************************************)
(* State-machine model of the blog server's two routers:                   *)
(*   routers/api/users.js  (register, change password)                     *)
(*   routers/api/post.js   (list, create, update, delete posts; comments)  *)
(* Strings that the code converts (toLowerCase, split, trim, +) are        *)
(* sequences of one-character strings; opaque strings are TLA+ strings.    *)
(* A handler is cut at its awaits: every action runs the store operation   *)
(* the handler was waiting for and then the code up to the next await.     *)
(***************************************************************************)
EXTENDS Integers, Sequences, FiniteSets, TLC

VARIABLES
    users,          \* User collection, in insertion order
    nextUserId,     \* next fresh user _id
    ureq,           \* the users-router request being handled
    posts,          \* Post collection, in insertion order
    nextPostId,     \* next fresh post _id
    nextCommentId,  \* next fresh comment _id
    uploads,        \* names of the files in client/public/uploads
    now,            \* last value Date.now() returned
    reqs            \* posts-router requests in flight, by slot

userVars == <<users, nextUserId, ureq>>
postVars == <<posts, nextPostId, nextCommentId, uploads, now, reqs>>
vars == <<users, nextUserId, ureq, posts, nextPostId, nextCommentId, uploads, now, reqs>>

(***************************************************************************)
(* Bounds of the model.                                                    *)
(***************************************************************************)
MaxUsers == 2
MaxInFlight == 2
MaxPostId == 2
MaxCommentId == 2
MaxTime == 2
MaxCatLen == 3

(***************************************************************************)
(* Program constants.                                                      *)
(***************************************************************************)
MinPasswordLen == 6
SaltRounds == 10
TokenExpiresIn == 7200

(***************************************************************************)
(* Strings.                                                                *)
(***************************************************************************)
RECURSIVE MapSeq(_, _)
MapSeq(F(_), s) == IF s = <<>> THEN <<>> ELSE <<F(Head(s))>> \o MapSeq(F, Tail(s))

RECURSIVE FilterSeq(_, _)
FilterSeq(P(_), s) ==
    IF s = <<>> THEN <<>>
    ELSE IF P(Head(s)) THEN <<Head(s)>> \o FilterSeq(P, Tail(s))
    ELSE FilterSeq(P, Tail(s))

Range(s) == {s[i] : i \in 1..Len(s)}

ToLowerChar(c) ==
    CASE c = "A" -> "a"
      [] c = "B" -> "b"
      [] OTHER -> c

ToLowerCase(s) == MapSeq(ToLowerChar, s)

Digits == <<"0", "1", "2", "3", "4", "5", "6", "7", "8", "9">>

RECURSIVE NumToStr(_)
NumToStr(n) ==
    IF n < 10 THEN <<Digits[n + 1]>>
    ELSE NumToStr(n \div 10) \o <<Digits[(n % 10) + 1]>>

IsSpace(c) == c = " "

RECURSIVE TrimStart(_)
TrimStart(s) == IF s # <<>> /\ IsSpace(Head(s)) THEN TrimStart(Tail(s)) ELSE s

RECURSIVE TrimEnd(_)
TrimEnd(s) ==
    IF s # <<>> /\ IsSpace(s[Len(s)]) THEN TrimEnd(SubSeq(s, 1, Len(s) - 1)) ELSE s

Trim(s) == TrimEnd(TrimStart(s))

\* s.split(','): the pieces between the commas, empty pieces kept
RECURSIVE SplitComma(_, _)
SplitComma(s, cur) ==
    IF s = <<>> THEN <<cur>>
    ELSE IF Head(s) = "," THEN <<cur>> \o SplitComma(Tail(s), <<>>)
    ELSE SplitComma(Tail(s), Append(cur, Head(s)))

Split(s) == SplitComma(s, <<>>)

(***************************************************************************)
(* routers/api/users.js                                                    *)
(***************************************************************************)
Names == {<<>>, <<"n">>}
Emails == {<<"a", "@", "x">>, <<"A", "@", "x">>, <<"b", "@", "x">>, <<"a", "x">>}
Passwords == {<<>>, <<"s", "e", "c", "r", "t">>, <<"s", "e", "c", "r", "e", "t">>,
              <<"h", "u", "n", "t", "e", "r">>}
Salts == {"salt1", "salt2"}

NoUser == [id |-> 0, email |-> <<>>, password |-> [rounds |-> 0, salt |-> "", pw |-> <<>>]]

IdleUserReq ==
    [op |-> "idle", pc |-> "idle", name |-> <<>>, email |-> <<>>, password |-> <<>>,
     password2 |-> <<>>, user |-> 0, doc |-> NoUser, status |-> 0, msg |-> "",
     token |-> [id |-> 0, expiresIn |-> 0]]

\* check('email').isEmail(): something, an @, something
IsEmail(e) == \E i \in 2..(Len(e) - 1) : e[i] = "@"

RegisterValid(name, email, password) ==
    /\ name # <<>>
    /\ IsEmail(email)
    /\ Len(password) >= MinPasswordLen

NormalizeEmailKeepCase(e) == e

NormalizeEmail(e) == ToLowerCase(e)

\* User.findOne({ email }): the first user with that email, or NoUser
FindUserByEmail(us, email) ==
    LET hit == FilterSeq(LAMBDA u : u.email = email, us)
    IN IF hit = <<>> THEN NoUser ELSE Head(hit)

FindUserById(us, id) ==
    LET hit == FilterSeq(LAMBDA u : u.id = id, us)
    IN IF hit = <<>> THEN NoUser ELSE Head(hit)

\* bcrypt.genSalt(10) and bcrypt.hash(password, salt)
Hash(pw, salt) == [rounds |-> SaltRounds, salt |-> salt, pw |-> pw]

UserRespond(rq, status, msg) == [rq EXCEPT !.pc = "done", !.status = status, !.msg = msg]

\* POST /api/users up to the await of user.save()
Register(name, email, password, salt) ==
    /\ ureq.op = "idle"
    /\ LET rq == [IdleUserReq EXCEPT !.op = "register", !.name = name, !.email = email,
                                     !.password = password]
           lemail == NormalizeEmail(email)
       IN IF ~RegisterValid(name, email, password)
          THEN /\ ureq' = UserRespond(rq, 400, "validation")
               /\ UNCHANGED nextUserId
          ELSE IF FindUserByEmail(users, lemail) # NoUser
          THEN /\ ureq' = UserRespond(rq, 400, "User already exists")
               /\ UNCHANGED nextUserId
          ELSE /\ nextUserId <= MaxUsers
               /\ ureq' = [rq EXCEPT !.pc = "save",
                                     !.doc = [id |-> nextUserId, email |-> lemail,
                                              password |-> Hash(password, salt)]]
               /\ nextUserId' = nextUserId + 1
    /\ UNCHANGED <<users, postVars>>

\* user.save() done, then jwt.sign and res.json({ token })
RegisterSave ==
    /\ ureq.op = "register"
    /\ ureq.pc = "save"
    /\ users' = Append(users, ureq.doc)
    /\ ureq' = [UserRespond(ureq, 200, "token") EXCEPT
                    !.token = [id |-> ureq.doc.id, expiresIn |-> TokenExpiresIn]]
    /\ UNCHANGED <<nextUserId, postVars>>

\* const password2 = req.body.password
ConfirmationField(password, password2) == password

ChangePasswordValid(password, password2) == password # <<>> /\ password2 # <<>>

\* PUT /api/users/change-password up to the await of userDetail.save();
\* req.user.id is the id of a stored user (the auth middleware's token)
ChangePassword(user, password, password2, salt) ==
    /\ ureq.op = "idle"
    /\ FindUserById(users, user) # NoUser
    /\ LET rq == [IdleUserReq EXCEPT !.op = "changePassword", !.user = user,
                                     !.password = password, !.password2 = password2]
           confirm == ConfirmationField(password, password2)
       IN IF ~ChangePasswordValid(password, password2)
          THEN ureq' = UserRespond(rq, 400, "validation")
          ELSE IF password # confirm
          THEN ureq' = UserRespond(rq, 400, "Password confirmation does not match password")
          ELSE ureq' = [rq EXCEPT !.pc = "save",
                                  !.doc = [FindUserById(users, user) EXCEPT
                                               !.password = Hash(password, salt)]]
    /\ UNCHANGED <<users, nextUserId, postVars>>

\* userDetail.save() done, then res.status(200).json(user)
ChangePasswordSave ==
    /\ ureq.op = "changePassword"
    /\ ureq.pc = "save"
    /\ users' = [i \in 1..Len(users) |->
                    IF users[i].id = ureq.doc.id THEN ureq.doc ELSE users[i]]
    /\ ureq' = UserRespond(ureq, 200, "user")
    /\ UNCHANGED <<nextUserId, postVars>>

\* the response has gone out; the next request arrives
UserFinish ==
    /\ ureq.pc = "done"
    /\ ureq' = IdleUserReq
    /\ UNCHANGED <<users, nextUserId, postVars>>

(***************************************************************************)
(* routers/api/post.js: requests and data                                  *)
(***************************************************************************)
Slots == 1..MaxInFlight
PostIds == 1..MaxPostId
CommentIds == 1..MaxCommentId

\* req.files === null, or req.files.image
NoFiles == [present |-> FALSE, name |-> <<>>, mimetype |-> ""]
Image(n, m) == [present |-> TRUE, name |-> n, mimetype |-> m]

\* req.body.category: a comma-separated string, an array, or not given
CatString(s) == [kind |-> "string", str |-> s, arr |-> <<>>]
CatArray(a) == [kind |-> "array", str |-> <<>>, arr |-> a]
CatUndefined == [kind |-> "undefined", str |-> <<>>, arr |-> <<>>]
StrABC == <<"a", ",", " ", "b", ",", "c">>
ArrX == << <<"x">> >>

NoImage == [fileName |-> <<>>, mimeType |-> "", filePath |-> <<>>]
NoPost == [id |-> 0, title |-> "", content |-> "", user |-> "", category |-> <<>>,
           image |-> NoImage, comments |-> <<>>]
NoComment == [id |-> 0, user |-> ""]

IdleReq ==
    [op |-> "idle", pc |-> "idle", user |-> "", id |-> 0, commentId |-> 0, title |-> "",
     content |-> "", files |-> NoFiles, category |-> CatUndefined, text |-> "",
     doc |-> NoPost, unlink |-> "none", unlinkName |-> <<>>, mv |-> "none", mvName |-> <<>>,
     status |-> 0, msg |-> "", list |-> <<>>, sends |-> 0, uncaught |-> FALSE]

Reverse(s) == [i \in 1..Len(s) |-> s[Len(s) + 1 - i]]

PostIdsOf(ps) == {ps[i].id : i \in 1..Len(ps)}

\* Post.find().sort({ date: -1 }): the ids of the posts, newest first (a post's
\* date is its creation time, and the collection is kept in creation order)
PostFind(ps) == Reverse([i \in 1..Len(ps) |-> ps[i].id])

\* Post.findById(id): the post, or NoPost for null
FindPostById(ps, id) ==
    LET hit == FilterSeq(LAMBDA p : p.id = id, ps)
    IN IF hit = <<>> THEN NoPost ELSE Head(hit)

TitleNeverExists(ps, title) == FALSE

\* Post.findOne({ title: title }) found a post
TitleExists(ps, title) == \E i \in 1..Len(ps) : ps[i].title = title

AcceptsAnyMime(m) == TRUE

\* reqData.mimeType !== 'image/png' is the rejection
IsAcceptedMime(m) == m = "image/png"

\* { fileName: Date.now() + image.name, ..., filePath: `/uploads/${Date.now() + image.name}` }
\* with t1 and t2 the two values Date.now() returned
ReqData(image, t1, t2) ==
    [fileName |-> NumToStr(t1) \o image.name,
     mimeType |-> image.mimetype,
     filePath |-> <<"/uploads/">> \o (NumToStr(t2) \o image.name)]

NormalizeCategoryNoTrim(str) == MapSeq(LAMBDA cat : <<" ">> \o cat, Split(str))

\* category.split(',').map((cat) => ' ' + cat.trim())
NormalizeCategory(str) == MapSeq(LAMBDA cat : <<" ">> \o Trim(cat), Split(str))

\* Array.isArray(category) ? category : category.split(',').map(...)
CategoryOf(category) ==
    IF category.kind = "array" THEN category.arr ELSE NormalizeCategory(category.str)

PostFieldsValid(title, content) == title # "" /\ content # ""

\* a response sent by the handler's own code, inside its try: when the response has
\* already gone out res.json throws, the catch's res.status(500).send throws again and
\* the exception leaves the handler
HandlerSend(rq, status, msg, list) ==
    IF rq.sends = 0
    THEN [rq EXCEPT !.status = status, !.msg = msg, !.list = list, !.sends = 1]
    ELSE [rq EXCEPT !.sends = @ + 2, !.uncaught = TRUE]

\* a response sent from the fs.unlink callback: return res.status(500).send(err)
CallbackSend(rq) ==
    IF rq.sends = 0
    THEN [rq EXCEPT !.status = 500, !.msg = "unlink", !.sends = 1]
    ELSE [rq EXCEPT !.sends = @ + 1, !.uncaught = TRUE]

Respond(rq, status, msg) == [HandlerSend(rq, status, msg, <<>>) EXCEPT !.pc = "done"]

RespondList(rq, list) == [HandlerSend(rq, 200, "", list) EXCEPT !.pc = "done"]

Quiescent(rq) == rq.pc = "done" /\ rq.unlink # "pending" /\ rq.mv # "pending"

(***************************************************************************)
(* routers/api/post.js: the handlers                                       *)
(***************************************************************************)
\* GET /api/post
ListPosts(r, user) ==
    /\ reqs[r].op = "idle"
    /\ LET rq == [IdleReq EXCEPT !.op = "list", !.user = user]
       IN reqs' = [reqs EXCEPT ![r] = RespondList(rq, PostFind(posts))]
    /\ UNCHANGED <<posts, nextPostId, nextCommentId, uploads, now, userVars>>

\* POST /api/post up to the await of post.save(); t1 and t2 are what the two
\* Date.now() calls return
CreatePost(r, user, title, content, files, category, t1, t2) ==
    /\ reqs[r].op = "idle"
    /\ LET rq == [IdleReq EXCEPT !.op = "create", !.user = user, !.title = title,
                                 !.content = content, !.files = files, !.category = category]
           reqData == ReqData(files, t1, t2)
           moving == [rq EXCEPT !.mv = "pending", !.mvName = reqData.fileName]
       IN IF ~PostFieldsValid(title, content)
          THEN /\ reqs' = [reqs EXCEPT ![r] = Respond(rq, 400, "validation")]
               /\ UNCHANGED <<nextPostId, now>>
          ELSE IF ~files.present
          THEN /\ reqs' = [reqs EXCEPT ![r] = Respond(rq, 400, "Image is required")]
               /\ UNCHANGED <<nextPostId, now>>
          ELSE IF TitleExists(posts, title)
          THEN /\ reqs' = [reqs EXCEPT ![r] = Respond(rq, 401, "This post already exist")]
               /\ UNCHANGED <<nextPostId, now>>
          ELSE IF ~IsAcceptedMime(reqData.mimeType)
          THEN /\ reqs' = [reqs EXCEPT ![r] = Respond(rq, 400, "Please, upload only JPEG, JPG, PNG images")]
               /\ now' = t2
               /\ UNCHANGED nextPostId
          ELSE IF category.kind = "undefined"
          THEN \* category.split of undefined throws after image.mv was called
               /\ reqs' = [reqs EXCEPT ![r] = Respond(moving, 500, "Server Error")]
               /\ now' = t2
               /\ UNCHANGED nextPostId
          ELSE /\ nextPostId <= MaxPostId
               /\ reqs' = [reqs EXCEPT ![r] =
                      [moving EXCEPT !.pc = "save",
                                     !.doc = [id |-> nextPostId, title |-> title,
                                              content |-> content, user |-> user,
                                              category |-> CategoryOf(category),
                                              image |-> reqData, comments |-> <<>>]]]
               /\ now' = t2
               /\ nextPostId' = nextPostId + 1
    /\ UNCHANGED <<posts, nextCommentId, uploads, userVars>>

\* post.save() of a new post done; Post.find() is awaited next
SavePost(r) ==
    /\ reqs[r].op = "create"
    /\ reqs[r].pc = "save"
    /\ posts' = Append(posts, reqs[r].doc)
    /\ reqs' = [reqs EXCEPT ![r].pc = "find"]
    /\ UNCHANGED <<nextPostId, nextCommentId, uploads, now, userVars>>

\* Post.find() done, res.json(list)
FindPosts(r) ==
    /\ reqs[r].pc = "find"
    /\ reqs' = [reqs EXCEPT ![r] = RespondList(reqs[r], PostFind(posts))]
    /\ UNCHANGED <<posts, nextPostId, nextCommentId, uploads, now, userVars>>

\* image.mv(path) writes the file; nothing waits for it
MvDone(r) ==
    /\ reqs[r].mv = "pending"
    /\ uploads' = uploads \cup {reqs[r].mvName}
    /\ reqs' = [reqs EXCEPT ![r].mv = "done"]
    /\ UNCHANGED <<posts, nextPostId, nextCommentId, now, userVars>>

\* fs.unlink(path, callback) runs: the file is removed, or it is not there and the
\* callback gets the error
UnlinkDone(r) ==
    /\ reqs[r].unlink = "pending"
    /\ IF reqs[r].unlinkName \in uploads
       THEN /\ uploads' = uploads \ {reqs[r].unlinkName}
            /\ reqs' = [reqs EXCEPT ![r].unlink = "ok"]
       ELSE /\ reqs' = [reqs EXCEPT ![r] = [CallbackSend(reqs[r]) EXCEPT !.unlink = "err"]]
            /\ UNCHANGED uploads
    /\ UNCHANGED <<posts, nextPostId, nextCommentId, now, userVars>>

\* $set: { user, title, content, status, category, image: reqData }
SetPostFields(p, doc) ==
    [p EXCEPT !.user = doc.user, !.title = doc.title, !.content = doc.content,
              !.category = doc.category, !.image = doc.image]

\* PUT /api/post/:id up to the await of Post.findOneAndUpdate()
UpdatePost(r, user, id, title, content, files, category, t1, t2) ==
    /\ reqs[r].op = "idle"
    /\ LET rq == [IdleReq EXCEPT !.op = "update", !.user = user, !.id = id,
                                 !.title = title, !.content = content, !.files = files, !.category = category]
           reqData == ReqData(files, t1, t2)
           postExist == FindPostById(posts, id)
           moving == [rq EXCEPT !.unlink = "pending",
                                !.unlinkName = postExist.image.fileName,
                                !.mv = "pending", !.mvName = reqData.fileName]
       IN IF ~PostFieldsValid(title, content)
          THEN /\ reqs' = [reqs EXCEPT ![r] = Respond(rq, 400, "validation")]
               /\ UNCHANGED now
          ELSE IF ~files.present
          THEN /\ reqs' = [reqs EXCEPT ![r] = Respond(rq, 400, "Image is required")]
               /\ UNCHANGED now
          ELSE IF ~IsAcceptedMime(reqData.mimeType)
          THEN /\ reqs' = [reqs EXCEPT ![r] = Respond(rq, 400, "Please, upload only JPEG, JPG, PNG images")]
               /\ now' = t2
          ELSE IF postExist = NoPost
          THEN \* postExist.image of null throws
               /\ reqs' = [reqs EXCEPT ![r] = Respond(rq, 500, "Server Error")]
               /\ now' = t2
          ELSE IF category.kind = "undefined"
          THEN \* category.split of undefined throws after fs.unlink and image.mv were called
               /\ reqs' = [reqs EXCEPT ![r] = Respond(moving, 500, "Server Error")]
               /\ now' = t2
          ELSE /\ reqs' = [reqs EXCEPT ![r] =
                      [moving EXCEPT !.pc = "update",
                                     !.doc = [NoPost EXCEPT !.id = id, !.title = title,
                                                  !.content = content, !.user = user,
                                                  !.category = CategoryOf(category),
                                                  !.image = reqData]]]
               /\ now' = t2
    /\ UNCHANGED <<posts, nextPostId, nextCommentId, uploads, userVars>>

\* Post.findOneAndUpdate({ _id: id }, { $set }) done; Post.find() is awaited next
UpdateExec(r) ==
    /\ reqs[r].op = "update"
    /\ reqs[r].pc = "update"
    /\ posts' = [i \in 1..Len(posts) |->
                    IF posts[i].id = reqs[r].id THEN SetPostFields(posts[i], reqs[r].doc)
                    ELSE posts[i]]
    /\ reqs' = [reqs EXCEPT ![r].pc = "find"]
    /\ UNCHANGED <<nextPostId, nextCommentId, uploads, now, userVars>>

\* DELETE /api/post/:id up to the await of Post.remove()
DeletePost(r, user, id) ==
    /\ reqs[r].op = "idle"
    /\ LET rq == [IdleReq EXCEPT !.op = "delete", !.user = user, !.id = id]
           postExist == FindPostById(posts, id)
       IN IF postExist = NoPost
          THEN \* postExist.image of null throws
               reqs' = [reqs EXCEPT ![r] = Respond(rq, 500, "Server Error")]
          ELSE reqs' = [reqs EXCEPT ![r] =
                      [rq EXCEPT !.pc = "remove", !.unlink = "pending",
                                 !.unlinkName = postExist.image.fileName]]
    /\ UNCHANGED <<posts, nextPostId, nextCommentId, uploads, now, userVars>>

KeepAllPosts(ps, id) == ps

\* Post.remove({ _id: id })
RemovePost(ps, id) == FilterSeq(LAMBDA p : p.id # id, ps)

\* Post.remove() done; Post.find() is awaited next
RemoveExec(r) ==
    /\ reqs[r].op = "delete"
    /\ reqs[r].pc = "remove"
    /\ posts' = RemovePost(posts, reqs[r].id)
    /\ reqs' = [reqs EXCEPT ![r].pc = "find"]
    /\ UNCHANGED <<nextPostId, nextCommentId, uploads, now, userVars>>

\* the request is over: its response is out and its file operations have run
Finish(r) ==
    /\ Quiescent(reqs[r])
    /\ reqs' = [reqs EXCEPT ![r] = IdleReq]
    /\ UNCHANGED <<posts, nextPostId, nextCommentId, uploads, now, userVars>>

(***************************************************************************)
(* routers/api/post.js: comments                                           *)
(***************************************************************************)
\* POST /api/post/comment/:id up to the await of post.save()
AddComment(r, user, id, text) ==
    /\ reqs[r].op = "idle"
    /\ LET rq == [IdleReq EXCEPT !.op = "addComment", !.user = user, !.id = id,
                                 !.text = text]
           post == FindPostById(posts, id)
           newComment == [id |-> nextCommentId, user |-> user]
       IN IF text = ""
          THEN /\ reqs' = [reqs EXCEPT ![r] = Respond(rq, 400, "validation")]
               /\ UNCHANGED nextCommentId
          ELSE IF post = NoPost
          THEN \* post.comments of null throws
               /\ reqs' = [reqs EXCEPT ![r] = Respond(rq, 500, "Server Error")]
               /\ UNCHANGED nextCommentId
          ELSE /\ nextCommentId <= MaxCommentId
               \* post.comments.unshift(newComment)
               /\ reqs' = [reqs EXCEPT ![r] =
                      [rq EXCEPT !.pc = "saveDoc",
                                 !.doc = [post EXCEPT !.comments = <<newComment>> \o @]]]
               /\ nextCommentId' = nextCommentId + 1
    /\ UNCHANGED <<posts, nextPostId, uploads, now, userVars>>

\* post.comments.find((comment) => comment.id === req.params.comment_id)
FindComment(comments, cid) ==
    LET hit == FilterSeq(LAMBDA c : c.id = cid, comments)
    IN IF hit = <<>> THEN NoComment ELSE Head(hit)

AnyoneIsAuthor(comment, user) == TRUE

\* comment.user.toString() !== req.user.id is the rejection
IsCommentAuthor(comment, user) == comment.user = user

\* post.comments.filter(({ id }) => id !== req.params.comment_id)
WithoutComment(comments, cid) == FilterSeq(LAMBDA c : c.id # cid, comments)

\* DELETE /api/post/comment/:id/:comment_id up to the await of post.save()
DeleteComment(r, user, id, cid) ==
    /\ reqs[r].op = "idle"
    /\ LET rq == [IdleReq EXCEPT !.op = "delComment", !.user = user, !.id = id,
                                 !.commentId = cid]
           post == FindPostById(posts, id)
           comment == FindComment(post.comments, cid)
       IN IF post = NoPost
          THEN \* post.comments of null throws
               reqs' = [reqs EXCEPT ![r] = Respond(rq, 500, "Server Error")]
          ELSE IF comment = NoComment
          THEN reqs' = [reqs EXCEPT ![r] = Respond(rq, 404, "Comment does not exist")]
          ELSE IF ~IsCommentAuthor(comment, user)
          THEN reqs' = [reqs EXCEPT ![r] = Respond(rq, 401, "User not authorized")]
          ELSE reqs' = [reqs EXCEPT ![r] =
                      [rq EXCEPT !.pc = "saveDoc",
                                 !.doc = [post EXCEPT
                                              !.comments = WithoutComment(@, cid)]]]
    /\ UNCHANGED <<posts, nextPostId, nextCommentId, uploads, now, userVars>>

\* post.save() of a loaded post whose comments were changed, then
\* res.json(post.comments)
SaveDoc(r) ==
    /\ reqs[r].pc = "saveDoc"
    /\ IF reqs[r].doc.id \in PostIdsOf(posts)
       THEN /\ posts' = [i \in 1..Len(posts) |->
                            IF posts[i].id = reqs[r].doc.id
                            THEN [posts[i] EXCEPT !.comments = reqs[r].doc.comments]
                            ELSE posts[i]]
            /\ reqs' = [reqs EXCEPT ![r] = RespondList(reqs[r], reqs[r].doc.comments)]
       ELSE \* the document is gone: save() rejects
            /\ reqs' = [reqs EXCEPT ![r] = Respond(reqs[r], 500, "Server Error")]
            /\ UNCHANGED posts
    /\ UNCHANGED <<nextPostId, nextCommentId, uploads, now, userVars>>

(***************************************************************************)
(* The specifications                                                      *)
(***************************************************************************)
Init ==
    /\ users = <<>>
    /\ nextUserId = 1
    /\ ureq = IdleUserReq
    /\ posts = <<>>
    /\ nextPostId = 1
    /\ nextCommentId = 1
    /\ uploads = {}
    /\ now = 1
    /\ reqs = [r \in Slots |-> IdleReq]

Times(from) == from..MaxTime

UserNext ==
    \/ \E n \in Names, e \in Emails, p \in Passwords, s \in Salts : Register(n, e, p, s)
    \/ RegisterSave
    \/ \E u \in 1..MaxUsers, p \in Passwords, p2 \in Passwords, s \in Salts :
           ChangePassword(u, p, p2, s)
    \/ ChangePasswordSave
    \/ UserFinish

\* the users router, one request at a time
UsersSpec == Init /\ [][UserNext]_vars

\* the steps of a list or create-post request in slot r, its inputs drawn from the
\* sets of D; D.drift is by how much the clock may have advanced at a Date.now() call
CreateStep(r, D) ==
    \/ \E u \in D.users : ListPosts(r, u)
    \/ \E u \in D.users, t \in D.titles, c \in D.contents, f \in D.files, cat \in D.cats :
           \E t1 \in Times(now) \cap {now + d : d \in D.drift} :
               \E t2 \in Times(t1) \cap {t1 + d : d \in D.drift} :
                   CreatePost(r, u, t, c, f, cat, t1, t2)
    \/ SavePost(r)
    \/ FindPosts(r)
    \/ MvDone(r)
    \/ Finish(r)

\* the steps of an update-post or delete-post request in slot r
ChangeStep(r, D) ==
    \/ \E u \in D.users, id \in PostIds, t \in D.titles, c \in D.contents, f \in D.files,
          cat \in D.cats :
           \E t1 \in Times(now) \cap {now + d : d \in D.drift} :
               \E t2 \in Times(t1) \cap {t1 + d : d \in D.drift} :
                   UpdatePost(r, u, id, t, c, f, cat, t1, t2)
    \/ UpdateExec(r)
    \/ \E u \in D.users, id \in PostIds : DeletePost(r, u, id)
    \/ RemoveExec(r)
    \/ UnlinkDone(r)

\* the steps of a comment request in slot r
CommentStep(r, D) ==
    \/ \E u \in D.users, id \in PostIds, x \in D.texts : AddComment(r, u, id, x)
    \/ \E u \in D.users, id \in PostIds, cid \in CommentIds : DeleteComment(r, u, id, cid)
    \/ SaveDoc(r)

PostStep(r, D) == CreateStep(r, D) \/ ChangeStep(r, D)

\* the post routes, one request at a time, the clock advancing
SeqInputs ==
    [users |-> {"u1"}, titles |-> {"", "t1", "t2"}, contents |-> {"", "c"},
     files |-> {NoFiles, Image(<<"a">>, "image/png"), Image(<<"a">>, "image/jpeg")},
     cats |-> {CatString(StrABC), CatArray(ArrX), CatUndefined}, drift |-> {0, 1}]

SeqNext == PostStep(1, SeqInputs)

SeqSpec == Init /\ [][SeqNext]_vars

\* the post routes, one request at a time, with requests of every kind of fault,
\* all within one tick of the clock
RejectInputs ==
    [users |-> {"u1"}, titles |-> {"", "t1", "t2"}, contents |-> {"", "c"},
     files |-> {NoFiles, Image(<<"a">>, "image/png"), Image(<<"a">>, "image/jpeg")},
     cats |-> {CatString(StrABC), CatArray(ArrX), CatUndefined}, drift |-> {0}]

RejectNext == PostStep(1, RejectInputs)

RejectSpec == Init /\ [][RejectNext]_vars

\* the post routes, one request at a time, with images of two names, all within
\* one tick of the clock
DeleteInputs ==
    [users |-> {"u1"}, titles |-> {"t1", "t2"}, contents |-> {"c"},
     files |-> {Image(<<"a">>, "image/png"), Image(<<"b">>, "image/png")},
     cats |-> {CatArray(ArrX), CatUndefined}, drift |-> {0}]

DeleteNext == PostStep(1, DeleteInputs)

DeleteSpec == Init /\ [][DeleteNext]_vars

\* the post routes, concurrent requests
ConcInputs ==
    [users |-> {"u1"}, titles |-> {"t1", "t2"}, contents |-> {"c"},
     files |-> {Image(<<"a">>, "image/png")}, cats |-> {CatArray(ArrX)}, drift |-> {0}]

Next == \E r \in Slots : PostStep(r, ConcInputs)

Spec == Init /\ [][Next]_vars

\* posts created and commented, one request at a time
CommentInputs ==
    [users |-> {"u1", "u2"}, titles |-> {"t1", "t2"}, contents |-> {"c"},
     files |-> {Image(<<"a">>, "image/png")}, cats |-> {CatArray(ArrX)}, drift |-> {0},
     texts |-> {"", "hi"}]

CommentNext == CreateStep(1, CommentInputs) \/ CommentStep(1, CommentInputs)

CommentSpec == Init /\ [][CommentNext]_vars

\* the category strings of at most MaxCatLen characters, and the documented example
CategoryStrings ==
    UNION {[1..k -> {"a", " ", ","}] : k \in 0..MaxCatLen} \cup {StrABC}

\* posts created and updated with every category string, one request at a time
CategoryInputs ==
    [users |-> {"u1"}, titles |-> {"t1"}, contents |-> {"c"},
     files |-> {Image(<<"a">>, "image/png")},
     cats |-> {CatString(x) : x \in CategoryStrings}, drift |-> {0}]

CategoryNext == PostStep(1, CategoryInputs)

CategorySpec == Init /\ [][CategoryNext]_vars

(***************************************************************************)
(* What the claims speak of                                                *)
(***************************************************************************)
StoredEmails == {users[i].email : i \in 1..Len(users)}

StoredTitles == {posts[i].title : i \in 1..Len(posts)}

StoredPost(ps, id) == ps[CHOOSE i \in 1..Len(ps) : ps[i].id = id]

\* the ids of the posts that were stored once and are stored no more, read when no
\* request is between its first and its last step
RemovedIds == {i \in 1..(nextPostId - 1) : i \notin PostIdsOf(posts)}

\* slot r takes a request of one of the ops in this step
Arrives(r, ops) == reqs[r].op = "idle" /\ reqs'[r].op \in ops

\* the step of slot r leaves the post records and the uploads directory as they
\* are and asks for no file operation
AltersNothing(r) ==
    /\ posts' = posts
    /\ uploads' = uploads
    /\ reqs'[r].mv = "none"
    /\ reqs'[r].unlink = "none"

\* slot r's request is answered in this step, with this status and an error message
RejectedWith(r, status) ==
    /\ reqs'[r].pc = "done"
    /\ reqs'[r].sends = 1
    /\ reqs'[r].status = status
    /\ reqs'[r].msg # ""

(***************************************************************************)
(* C1: a registration whose lowercased email is the email of a stored user *)
(* is answered 400 with an error, in the step it arrives in, and the user  *)
(* records stay as they are.                                               *)
(***************************************************************************)
C1_DuplicateEmailRejected ==
    [][(ureq.op = "idle" /\ ureq'.op = "register"
            /\ ToLowerCase(ureq'.email) \in StoredEmails)
        => (/\ ureq'.pc = "done"
            /\ ureq'.status = 400
            /\ ureq'.msg # ""
            /\ users' = users)]_vars

\* a registration with the email of a stored user in another case was rejected
C1_Witness ==
    /\ ureq.op = "register"
    /\ ureq.pc = "done"
    /\ ureq.status = 400
    /\ ureq.msg = "User already exists"
    /\ ureq.email # ToLowerCase(ureq.email)
    /\ ToLowerCase(ureq.email) \in StoredEmails

(***************************************************************************)
(* C2, as claimed: a create-post request whose title is the title of a     *)
(* stored post is rejected with 401 and alters nothing.                    *)
(***************************************************************************)
C2_DuplicateTitleIs401 ==
    [][\A r \in Slots :
          (Arrives(r, {"create"}) /\ reqs'[r].title \in StoredTitles)
          => (RejectedWith(r, 401) /\ AltersNothing(r))]_vars

(***************************************************************************)
(* C2, amended: a create-post request whose title is the title of a stored *)
(* post is rejected and alters nothing; the status is 401 when the request *)
(* has a content and an image, and 400 (the earlier checks) when not.      *)
(***************************************************************************)
C2_DuplicateTitleRejected ==
    [][\A r \in Slots :
          (Arrives(r, {"create"}) /\ reqs'[r].title \in StoredTitles)
          => (/\ RejectedWith(r, IF reqs'[r].content # "" /\ reqs'[r].files.present
                                 THEN 401 ELSE 400)
              /\ AltersNothing(r))]_vars

\* a create-post request with the title of a stored post was answered 401
C2_Witness ==
    \E r \in Slots :
        /\ reqs[r].op = "create"
        /\ reqs[r].pc = "done"
        /\ reqs[r].status = 401
        /\ reqs[r].title \in StoredTitles
        /\ reqs[r].mv = "none"

(***************************************************************************)
(* C3, as claimed: a create-post or update-post request whose image is not *)
(* image/png is rejected with 400 and alters nothing.                      *)
(***************************************************************************)
HasNonPngImage(rq) == rq.files.present /\ rq.files.mimetype # "image/png"

C3_NonPngIs400 ==
    [][\A r \in Slots :
          (Arrives(r, {"create", "update"}) /\ HasNonPngImage(reqs'[r]))
          => (RejectedWith(r, 400) /\ AltersNothing(r))]_vars

(***************************************************************************)
(* C3, amended: a create-post or update-post request whose image is not    *)
(* image/png is rejected and alters nothing; the status is 400, but 401    *)
(* for a create-post request with a title and a content whose title is the *)
(* title of a stored post (that check comes first).                        *)
(***************************************************************************)
C3_NonPngRejected ==
    [][\A r \in Slots :
          (Arrives(r, {"create", "update"}) /\ HasNonPngImage(reqs'[r]))
          => (/\ RejectedWith(r, IF /\ reqs'[r].op = "create"
                                    /\ reqs'[r].content # ""
                                    /\ reqs'[r].title \in StoredTitles
                                 THEN 401 ELSE 400)
              /\ AltersNothing(r))]_vars

\* an update-post request with a JPEG image was answered 400 for its MIME type
C3_Witness ==
    \E r \in Slots :
        /\ reqs[r].op = "update"
        /\ reqs[r].pc = "done"
        /\ HasNonPngImage(reqs[r])
        /\ reqs[r].title # ""
        /\ reqs[r].content # ""
        /\ reqs[r].status = 400
        /\ reqs[r].mv = "none"
        /\ posts # <<>>

C6_ConfirmationMustMatch ==
    (ureq.op = "changePassword" /\ ureq.pc = "done" /\ ureq.password # ureq.password2)
    => (/\ ureq.status = 400
        /\ ureq.doc = NoUser)

(***************************************************************************)
(* C7: when the removal of the previous image file fails in an update-post *)
(* or delete-post request that nothing else stops, the request is answered *)
(* once, with the post list and not with an error, and the record is       *)
(* updated or removed.                                                     *)
(***************************************************************************)
C7_UnlinkFailureOnlyLogged ==
    \A r \in Slots :
        (/\ reqs[r].op = "delete" \/ (reqs[r].op = "update" /\ reqs[r].doc.id # 0)
         /\ reqs[r].unlink = "err"
         /\ Quiescent(reqs[r]))
        => (/\ reqs[r].status = 200
            /\ reqs[r].sends = 1
            /\ ~reqs[r].uncaught
            /\ reqs[r].op = "delete" => reqs[r].id \notin PostIdsOf(posts)
            /\ (reqs[r].op = "update" /\ reqs[r].id \in PostIdsOf(posts))
               => StoredPost(posts, reqs[r].id).image = reqs[r].doc.image)

(***************************************************************************)
(* C8: no two stored posts have the same title.                            *)
(***************************************************************************)
C8_TitlesUnique ==
    \A i, j \in 1..Len(posts) : i # j => posts[i].title # posts[j].title

(***************************************************************************)
(* C9: a category given as a comma-separated string is stored as the list  *)
(* of its pieces, in order, each trimmed and prefixed with one space;      *)
(* "a, b,c" is stored as <<" a", " b", " c">>.                             *)
(***************************************************************************)
CommaCount(str) == Cardinality({i \in 1..Len(str) : str[i] = ","})

RECURSIVE Concat(_)
Concat(ss) == IF ss = <<>> THEN <<>> ELSE Head(ss) \o Concat(Tail(ss))

Letters(str) == SelectSeq(str, LAMBDA c : c # " " /\ c # ",")

\* one space, then a piece with no comma and no space at either end
IsStoredTag(e) ==
    /\ Len(e) >= 1
    /\ e[1] = " "
    /\ Len(e) >= 2 => (e[2] # " " /\ e[Len(e)] # " ")
    /\ \A i \in 1..Len(e) : e[i] # ","

C9_CategoryNormalized ==
    \A r \in Slots :
        (/\ reqs[r].op \in {"create", "update"}
         /\ reqs[r].pc \in {"find", "done"}
         /\ reqs[r].category.kind = "string"
         /\ reqs[r].doc.id \in PostIdsOf(posts))
        => LET str == reqs[r].category.str
               stored == StoredPost(posts, reqs[r].doc.id).category
           IN /\ Len(stored) = CommaCount(str) + 1
              /\ \A i \in 1..Len(stored) : IsStoredTag(stored[i])
              /\ Letters(Concat(stored)) = Letters(str)
              /\ str = <<"a", ",", " ", "b", ",", "c">>
                 => stored = << <<" ", "a">>, <<" ", "b">>, <<" ", "c">> >>

\* a post was stored with the category "a, b,c"
C9_Witness ==
    \E r \in Slots :
        /\ reqs[r].op \in {"create", "update"}
        /\ reqs[r].pc = "done"
        /\ reqs[r].status = 200
        /\ reqs[r].category = CatString(<<"a", ",", " ", "b", ",", "c">>)
        /\ reqs[r].doc.id \in PostIdsOf(posts)
        /\ StoredPost(posts, reqs[r].doc.id).category = << <<" ", "a">>, <<" ", "b">>, <<" ", "c">> >>

(***************************************************************************)
(* C10: the image of every stored post has filePath = "/uploads/" followed *)
(* by fileName, and fileName is the name of the file the request wrote.    *)
(***************************************************************************)
C10_ImageMetadataConsistent ==
    /\ \A i \in 1..Len(posts) :
           posts[i].image.filePath = <<"/uploads/">> \o posts[i].image.fileName
    /\ \A r \in Slots :
           (reqs[r].op \in {"create", "update"} /\ reqs[r].doc.id # 0)
           => reqs[r].doc.image.fileName = reqs[r].mvName

====
